---- MODULE Spec2Model ----
(***************************************************************************)
(* A model of guichet: a Guichet instance (its configuration properties,   *)
(* the list object behind ignore_params and the derived layout) and the    *)
(* event loop of Guichet.render().                                         *)
(***************************************************************************)
EXTENDS Naturals, Sequences, FiniteSets, TLC

(***************************************************************************)
(* Python values.  A value is a record of its type's name and its text, so *)
(* that the string "3" and the integer 3 are different values.             *)
(***************************************************************************)
None == "None"

PyStr(s) == [ty |-> "str", v |-> s]

PyInt(s) == [ty |-> "int", v |-> s]

PyFloat(s) == [ty |-> "float", v |-> s]

PyBool(b) == [ty |-> "bool", v |-> IF b THEN "True" ELSE "False"]

PySecret(s) == [ty |-> "SecretStr", v |-> s]

PyNone == [ty |-> "NoneType", v |-> None]

\* inspect._empty: the marker of a parameter with no default / no annotation
Empty == [ty |-> "_empty", v |-> ""]

\* the live sg.Window object handed to the callable under window_param
WindowHandle == [ty |-> "Window", v |-> "window"]

InSeq(x, s) == \E i \in 1..Len(s) : s[i] = x

(***************************************************************************)
(* The callables a Guichet is built around, by name, with their formal     *)
(* parameters in declaration order (inspect.signature).                    *)
(***************************************************************************)
Param(n, a, d) == [name |-> n, annotation |-> a, default |-> d]

Callables == {"concat", "f", "counter"}

\* a value that is no callable (the integer 42)
NonCallables == {"42"}

callable(value) == value \in Callables

Signature(fn) ==
    CASE fn = "concat" -> << Param("word_1", "_empty", Empty),
                             Param("word_2", "_empty", Empty) >>
      [] fn = "f" -> << Param("x", "int", PyInt("3")),
                        Param("ignored", "_empty", PyNone) >>
      [] fn = "counter" -> << Param("win", "Window", Empty),
                              Param("flag", "bool", PyBool(TRUE)) >>

\* the values a caller assigns to the properties
Labels == {"Run", "Go"}

Sizes == { <<80, 20>>, <<30, 10>> }

WindowParams == {None, "win"}

\* the list objects a caller owns and may pass as ignore_params, and the
\* list the instance creates itself ([]) when it is given None
CallerLists == {"L1"}

OwnList == "own"

InitialLists == { <<>>, <<"ignored">>, <<"word_2", "win">> }

\* a caller's list that names a parameter twice
DuplicateLists == { <<"win", "win">> }

(***************************************************************************)
(* The instance.  st = [gui |-> the instance's fields, lists |-> the       *)
(* contents of every list object]; gui.ignore_params is a reference into   *)
(* lists, as the setter stores the caller's list itself.                   *)
(***************************************************************************)
ignore_params_of(st) == st.lists[st.gui.ignore_params]

get_params_unfiltered(st) == Signature(st.gui.main_function)

get_params_inverted(st) ==
    SelectSeq(Signature(st.gui.main_function),
              LAMBDA p : InSeq(p.name, ignore_params_of(st)))

get_params(st) ==
    LET ign == ignore_params_of(st)
        keep(p) == ign = <<>> \/ ~InSeq(p.name, ign)
    IN SelectSeq(Signature(st.gui.main_function), keep)

TYPE_MAP(annotation) ==
    CASE annotation = "int" -> "InputText"
      [] annotation = "float" -> "InputText"
      [] annotation = "str" -> "InputText"
      [] annotation = "bool" -> "Checkbox"
      [] annotation = "SecretStr" -> "Password"
      [] OTHER -> "InputText"

ParamRow_none_is_missing(p, show) ==
    [kind |-> "param", label |-> p.name, widget |-> TYPE_MAP(p.annotation),
     content |-> IF p.default # Empty /\ p.default # PyNone /\ show
                 THEN p.default ELSE PyStr("")]

ParamRow(p, show) ==
    [kind |-> "param", label |-> p.name, widget |-> TYPE_MAP(p.annotation),
     content |-> IF p.default # Empty /\ show THEN p.default ELSE PyStr("")]

ButtonRow(label) == [kind |-> "button", key |-> "-RUN-", text |-> label]

OutputRow(size) == [kind |-> "output", key |-> "-OUTPUT-", size |-> size]

make_layout(st) ==
    LET ps == get_params(st)
    IN [i \in 1..Len(ps) |-> ParamRow(ps[i], st.gui.show_default)]
         \o << ButtonRow(st.gui.button_label) >>
         \o << OutputRow(st.gui.output_size) >>

Relayout(st) == [st EXCEPT !.gui.layout = make_layout(st)]

\* the exception a property assignment raises, with the value it refused
NoRaise == [exc |-> "none", value |-> None]

TypeError(value) == [exc |-> "TypeError", value |-> value]

main_function_raises(value) ==
    IF ~callable(value) THEN TypeError(value) ELSE NoRaise

set_main_function_assign_first(st, value) ==
    IF ~callable(value)
    THEN [st EXCEPT !.gui.main_function = value]
    ELSE Relayout([st EXCEPT !.gui.main_function = value])

\* the test comes before any assignment: a refused value changes nothing
set_main_function(st, value) ==
    IF ~callable(value)
    THEN st
    ELSE Relayout([st EXCEPT !.gui.main_function = value])

set_output_size(st, value) == Relayout([st EXCEPT !.gui.output_size = value])

set_button_label_norebuild(st, value) == [st EXCEPT !.gui.button_label = value]

set_button_label(st, value) == Relayout([st EXCEPT !.gui.button_label = value])

set_show_default(st, value) == Relayout([st EXCEPT !.gui.show_default = value])

set_ignore_params(st, value) ==
    IF value = None
    THEN Relayout([st EXCEPT !.gui.ignore_params = OwnList,
                             !.lists[OwnList] = <<>>])
    ELSE Relayout([st EXCEPT !.gui.ignore_params = value])

set_window_param_always_append(st, value) ==
    LET s1 == [st EXCEPT !.gui.window_param = value]
        ref == s1.gui.ignore_params
    IN Relayout([s1 EXCEPT !.lists[ref] = Append(@, value)])

set_window_param(st, value) ==
    LET s1 == [st EXCEPT !.gui.window_param = value]
        ref == s1.gui.ignore_params
        s2 == IF ~InSeq(value, s1.lists[ref])
              THEN [s1 EXCEPT !.lists[ref] = Append(@, value)]
              ELSE s1
    IN Relayout(s2)

\* (self._params, which the main_function setter also assigns, is read by
\* nothing in this revision: _make_layout and render call _get_params afresh;
\* it is not part of the modelled state)

\* the instance before __init__ has assigned anything: the property getters
\* answer None for an attribute not yet set (a falsy show_default), and the
\* ignore_params getter creates an empty list on first use
Blank ==
    [main_function |-> None, output_size |-> None,
     button_label |-> None, show_default |-> FALSE, ignore_params |-> OwnList,
     window_param |-> None, layout |-> <<>>]

Construct(fn, size, label, show, ign, wp, heap) ==
    LET s0 == [gui |-> Blank, lists |-> heap]
        s1 == set_main_function(s0, fn)
        s2 == set_output_size(s1, size)
        s3 == set_button_label(s2, label)
        s4 == set_show_default(s3, show)
        s5 == set_ignore_params(s4, ign)
        s6 == set_window_param(s5, wp)
    IN Relayout(s6)

(***************************************************************************)
(* render(): the values read from the window, the conversion of the        *)
(* arguments and the invocation of the callable.                           *)
(***************************************************************************)
\* what a user can have typed in a text input; a checkbox gives a boolean
RawTexts == {"3", "abc"}

RawValues(widget) ==
    IF widget = "Checkbox"
    THEN {PyBool(TRUE), PyBool(FALSE)}
    ELSE {PyStr(t) : t \in RawTexts}

\* the texts Python's int() and float() accept
NumberTexts == {"3"}

Truthy(v) == ~(v.v \in {"", "False", "0", None})

\* p.annotation(v): the value it returns, or the exception it raises
Result(v) == [exc |-> "none", val |-> v]

Raises(kind) == [exc |-> kind, val |-> PyNone]

Annotate(annotation, v) ==
    CASE annotation = "_empty" -> Raises("TypeError")
      [] annotation = "int" ->
            IF v.ty = "bool" THEN Result(PyInt(IF Truthy(v) THEN "1" ELSE "0"))
            ELSE IF v.v \in NumberTexts THEN Result(PyInt(v.v))
            ELSE Raises("ValueError")
      [] annotation = "float" ->
            IF v.ty = "bool" THEN Result(PyFloat(IF Truthy(v) THEN "1" ELSE "0"))
            ELSE IF v.v \in NumberTexts THEN Result(PyFloat(v.v))
            ELSE Raises("ValueError")
      [] annotation = "str" -> Result(PyStr(v.v))
      [] annotation = "bool" -> Result(PyBool(Truthy(v)))
      [] annotation = "SecretStr" -> Result(PySecret(v.v))
      [] annotation = "Window" -> Result([ty |-> "Window", v |-> v.v])

\* the exceptions the conversion loop catches (falling back to the raw value)
Caught(exc) == exc = "TypeError"

Min(a, b) == IF a < b THEN a ELSE b

\* zip(self._get_params(), values.values()): the pairs, up to the shorter one
Zipped(ps, values) == [i \in 1..Min(Len(ps), Len(values)) |-> <<ps[i], values[i]>>]

\* the exception that leaves the conversion loop, "none" when none does
ConversionError(ps, values) ==
    LET z == Zipped(ps, values)
        bad == {i \in 1..Len(z) :
                   LET r == Annotate(z[i][1].annotation, z[i][2])
                   IN r.exc # "none" /\ ~Caught(r.exc)}
    IN IF bad = {} THEN "none"
       ELSE Annotate(z[CHOOSE i \in bad : \A j \in bad : i <= j][1].annotation,
                     z[CHOOSE i \in bad : \A j \in bad : i <= j][2]).exc

\* kwargs as the loop builds it: one entry per zipped parameter, then the
\* window under window_param when that is set (truthy)
Kwargs(ps, values, wp) ==
    LET z == Zipped(ps, values)
        names == {z[i][1].name : i \in 1..Len(z)}
        idx(n) == CHOOSE i \in 1..Len(z) : z[i][1].name = n
        conv(i) == LET r == Annotate(z[i][1].annotation, z[i][2])
                   IN IF r.exc = "none" THEN r.val ELSE z[i][2]
        base == [n \in names |-> conv(idx(n))]
    IN IF wp # None
       THEN [n \in names \cup {wp} |-> IF n = wp THEN WindowHandle ELSE base[n]]
       ELSE base

NoKwargs == [n \in {} |-> PyNone]

\* what a call main_function(**kwargs) can do: Python itself raises a
\* TypeError when a parameter without default is not given or a keyword is
\* unknown; otherwise the callable returns a value or raises an Exception
ReturnValues == {"foobar"}

ErrorMessages == {"bad"}

Returned(v) == [ok |-> TRUE, val |-> v]

Raised(m) == [ok |-> FALSE, val |-> m]

NoOutcome == [ok |-> TRUE, val |-> None]

Outcomes(fn, kw) ==
    LET sig == Signature(fn)
        names == {sig[i].name : i \in 1..Len(sig)}
        required == {sig[i].name : i \in {j \in 1..Len(sig) : sig[j].default = Empty}}
    IN IF required \subseteq DOMAIN kw /\ DOMAIN kw \subseteq names
       THEN {Returned(v) : v \in ReturnValues} \cup {Raised(m) : m \in ErrorMessages}
       ELSE {Raised("bad arguments")}

ErrorText_bare(m) == m

\* f"Error: {e}"
ErrorText(m) == "Error: " \o m

\* the Future the loop holds (None, or submitted and running or done), as
\* concurrent.futures gives it
NoFuture == [st |-> "none", ok |-> TRUE, val |-> None]

RunningFuture == [st |-> "running", ok |-> TRUE, val |-> None]

DoneFuture(o) == [st |-> "done", ok |-> o.ok, val |-> o.val]

\* bounds of the exploration: the UI events delivered to one window, and
\* those waiting to be read
MaxEvents == 3

MaxQueue == 2

WaitMessages == {"Please wait..."}

Payloads == {"progress", "failing"}

UIEvents ==
    {[ev |-> "-RUN-", payload |-> None], [ev |-> "Exit", payload |-> None]}
      \cup {[ev |-> "-RUN-IN-GUICHET-", payload |-> p] : p \in Payloads}

\* the event e as the window holds it, the n-th it was sent
Arrival(e, n) == [ev |-> e.ev, payload |-> e.payload, seq |-> n]

VARIABLES
    gui,                \* the Guichet instance's properties and its layout
    lists,              \* the list objects (the caller's and the instance's)
    redirect_stdout,    \* plain attributes of the instance
    run_in_new_thread,
    wait_message,
    last_set,           \* the property assigned last ("none" since __init__)
    raised,             \* what the last property assignment raised
    other,              \* a second instance (Blank while there is none)
    pc,                 \* where render() is
    window,             \* "none", "open" or "closed"
    events,             \* UI events waiting for window.read()
    delivered,          \* how many UI events the window was sent
    rerouted,           \* whether stdout/stderr go to the output region
    executor,           \* "none", "running" or "shutdown"
    future,             \* the loop's local variable future
    unresolved,         \* how many submitted invocations the executor has not finished
    output,             \* the text chunks of the -OUTPUT- region
    stdout,             \* what went to the process's own standard output
    kwargs,             \* the arguments of the latest invocation
    ncalls,             \* how many invocations were started
    outcome,            \* how the latest inline invocation ended
    error,              \* the exception that left render(), "none" when none
    invoked,            \* the calls of payloads made so far, in order
    read_values         \* the values the latest trigger read from the window

config == << gui, lists, redirect_stdout, run_in_new_thread, wait_message,
            last_set, raised, other >>

running == << pc, window, events, delivered, rerouted, executor, future,
              unresolved, output, stdout, kwargs, ncalls, outcome, error,
              invoked, read_values >>

vars == << config, running >>

State == [gui |-> gui, lists |-> lists]

Become(st) == gui' = st.gui /\ lists' = st.lists

NotRendering ==
    /\ pc = "init" /\ window = "none" /\ events = <<>> /\ delivered = 0
    /\ rerouted = FALSE /\ executor = "none" /\ future = NoFuture
    /\ unresolved = 0 /\ output = <<>> /\ stdout = <<>> /\ kwargs = NoKwargs
    /\ ncalls = 0 /\ outcome = NoOutcome /\ error = "none"
    /\ invoked = <<>> /\ read_values = <<>>

Heap(l1) == [a \in CallerLists \cup {OwnList} |-> IF a = "L1" THEN l1 ELSE <<>>]

\* after Guichet(main_function, output_size=, button_label=, show_default=,
\* ignore_params=, window_param=), the other arguments at their defaults
\* (render() reads the list only through _get_params, for which a name
\* repeated in the list is the same as a name listed once: RenderInit below
\* leaves the DuplicateLists out)
Init ==
    /\ \E fn \in {v \in Callables \cup NonCallables :
                        main_function_raises(v) = NoRaise},
          size \in Sizes, label \in Labels, show \in BOOLEAN,
          ign \in CallerLists \cup {None}, wp \in WindowParams,
          l1 \in InitialLists \cup DuplicateLists :
            LET st == Construct(fn, size, label, show, ign, wp, Heap(l1))
            IN gui = st.gui /\ lists = st.lists
    /\ redirect_stdout = TRUE
    /\ run_in_new_thread = FALSE
    /\ wait_message = "Please wait..."
    /\ last_set = "none"
    /\ raised = NoRaise
    /\ other = Blank
    /\ NotRendering

(***************************************************************************)
(* Assignments to the properties of an instance that is not rendering.     *)
(***************************************************************************)
SetMainFunction ==
    /\ \E v \in Callables \cup NonCallables :
          /\ Become(set_main_function(State, v))
          /\ raised' = main_function_raises(v)
    /\ last_set' = "main_function"
    /\ UNCHANGED << redirect_stdout, run_in_new_thread, wait_message, other,
                    running >>

SetOutputSize ==
    /\ \E v \in Sizes : Become(set_output_size(State, v))
    /\ last_set' = "output_size"
    /\ raised' = NoRaise
    /\ UNCHANGED << redirect_stdout, run_in_new_thread, wait_message, other,
                    running >>

SetButtonLabel ==
    /\ \E v \in Labels : Become(set_button_label(State, v))
    /\ last_set' = "button_label"
    /\ raised' = NoRaise
    /\ UNCHANGED << redirect_stdout, run_in_new_thread, wait_message, other,
                    running >>

SetShowDefault ==
    /\ \E v \in BOOLEAN : Become(set_show_default(State, v))
    /\ last_set' = "show_default"
    /\ raised' = NoRaise
    /\ UNCHANGED << redirect_stdout, run_in_new_thread, wait_message, other,
                    running >>

SetIgnoreParams ==
    /\ \E v \in CallerLists \cup {None} : Become(set_ignore_params(State, v))
    /\ last_set' = "ignore_params"
    /\ raised' = NoRaise
    /\ UNCHANGED << redirect_stdout, run_in_new_thread, wait_message, other,
                    running >>

SetWindowParam ==
    /\ \E v \in WindowParams : Become(set_window_param(State, v))
    /\ last_set' = "window_param"
    /\ raised' = NoRaise
    /\ UNCHANGED << redirect_stdout, run_in_new_thread, wait_message, other,
                    running >>

Next ==
    \/ SetMainFunction
    \/ SetOutputSize
    \/ SetButtonLabel
    \/ SetShowDefault
    \/ SetIgnoreParams
    \/ SetWindowParam

Spec == Init /\ [][Next]_vars

(***************************************************************************)
(* Two instances given the same list object as ignore_params: the first    *)
(* (gui) as above, the second (other) constructed later by the same        *)
(* caller with the caller's list and a window_param of its own.            *)
(***************************************************************************)
OtherWindowParams == {"flag", "x"}

SharedInit ==
    /\ \E fn \in Callables, ign \in CallerLists \cup {None},
          wp \in WindowParams, l1 \in InitialLists :
            LET st == Construct(fn, <<80, 20>>, "Run", TRUE, ign, wp, Heap(l1))
            IN gui = st.gui /\ lists = st.lists
    /\ redirect_stdout = TRUE
    /\ run_in_new_thread = FALSE
    /\ wait_message = "Please wait..."
    /\ last_set = "none"
    /\ raised = NoRaise
    /\ other = Blank
    /\ NotRendering

\* Guichet(fn, ignore_params=L1, window_param=wp) for the second instance
ConstructOther ==
    /\ other = Blank
    /\ \E fn \in Callables, wp \in OtherWindowParams :
          LET st == Construct(fn, <<80, 20>>, "Run", TRUE, "L1", wp, lists)
          IN other' = st.gui /\ lists' = st.lists
    /\ UNCHANGED << gui, redirect_stdout, run_in_new_thread, wait_message,
                    last_set, raised, running >>

\* other.window_param = v
SetOtherWindowParam ==
    /\ other # Blank
    /\ \E v \in OtherWindowParams :
          LET st == set_window_param([gui |-> other, lists |-> lists], v)
          IN other' = st.gui /\ lists' = st.lists
    /\ UNCHANGED << gui, redirect_stdout, run_in_new_thread, wait_message,
                    last_set, raised, running >>

\* the assignments that reach ignore_params, on either instance
SharedNext ==
    \/ SetIgnoreParams
    \/ SetWindowParam
    \/ ConstructOther
    \/ SetOtherWindowParam

SharedSpec == SharedInit /\ [][SharedNext]_vars


(***************************************************************************)
(* render().  The loop's iteration is split where the worker thread can    *)
(* act in between: the test of future.done() at the top, the consumption   *)
(* of a finished future, and window.read() with the handling of its event. *)
(***************************************************************************)
\* render() is called on an instance as constructed, or on one whose
\* ignore_params was assigned None after a construction with a window_param
RenderInit ==
    /\ \/ /\ \E fn \in Callables, ign \in CallerLists \cup {None},
                wp \in WindowParams, l1 \in InitialLists :
                  LET st == Construct(fn, <<80, 20>>, "Run", TRUE, ign, wp,
                                      Heap(l1))
                  IN gui = st.gui /\ lists = st.lists
          /\ last_set = "none"
       \/ /\ \E fn \in Callables, ign \in CallerLists \cup {None} :
                  LET st == set_ignore_params(
                              Construct(fn, <<80, 20>>, "Run", TRUE, ign, "win",
                                        Heap(<<>>)), None)
                  IN gui = st.gui /\ lists = st.lists
          /\ last_set = "ignore_params"
    /\ redirect_stdout \in BOOLEAN
    /\ run_in_new_thread \in BOOLEAN
    /\ wait_message \in WaitMessages
    /\ raised = NoRaise
    /\ other = Blank
    /\ NotRendering

\* print(text) with the streams as they are now
PrintedOutput(text) == IF rerouted THEN Append(output, text \o "\n") ELSE output

PrintedStdout(text) == IF rerouted THEN stdout ELSE Append(stdout, text \o "\n")

RECURSIVE Join(_)
Join(chunks) == IF chunks = <<>> THEN "" ELSE Head(chunks) \o Join(Tail(chunks))

\* values.values(): one raw value per input of the window's layout, in row
\* order, then the text of the -OUTPUT- element
ParamRows(layout) == SelectSeq(layout, LAMBDA r : r.kind = "param")

AllRawValues == RawValues("Checkbox") \cup RawValues("InputText")

WindowValues(layout) ==
    LET rows == ParamRows(layout)
    IN {vals \o << PyStr(Join(output)) >> :
          vals \in {f \in [1..Len(rows) -> AllRawValues] :
                       \A i \in 1..Len(rows) : f[i] \in RawValues(rows[i].widget)}}

\* lines 181-190
RenderStart ==
    /\ pc = "init"
    /\ rerouted' = redirect_stdout
    /\ window' = "open"
    /\ executor' = IF run_in_new_thread THEN "running" ELSE executor
    /\ future' = NoFuture
    /\ pc' = "top"
    /\ UNCHANGED << config, invoked, read_values, events, delivered,
                    unresolved, output, stdout, kwargs, ncalls, outcome,
                    error >>

LoopTop_reads_first ==
    /\ pc = "top"
    /\ pc' = "read"
    /\ UNCHANGED << config, invoked, read_values, window, events, delivered,
                    rerouted, executor, future, unresolved, output, stdout,
                    kwargs, ncalls, outcome, error >>

\* lines 192-194: is there a finished future to consume?
LoopTop ==
    /\ pc = "top"
    /\ pc' = IF run_in_new_thread /\ future.st = "done" THEN "consume" ELSE "read"
    /\ UNCHANGED << config, invoked, read_values, window, events, delivered,
                    rerouted, executor, future, unresolved, output, stdout,
                    kwargs, ncalls, outcome, error >>

\* lines 195-201: future.result() returns the value or raises the failure
Consume ==
    /\ pc = "consume"
    /\ IF future.ok
       THEN output' = << future.val >> /\ future' = NoFuture
       ELSE output' = << ErrorText(future.val) >> /\ future' = future
    /\ pc' = "top"
    /\ UNCHANGED << config, invoked, read_values, window, events, delivered,
                    rerouted, executor, unresolved, stdout, kwargs, ncalls,
                    outcome, error >>

\* line 203 with no event within refresh_time: the timeout event, which no
\* branch handles
ReadTimeout ==
    /\ pc = "read"
    /\ events = <<>>
    /\ pc' = "top"
    /\ UNCHANGED << config, invoked, read_values, window, events, delivered,
                    rerouted, executor, future, unresolved, output, stdout,
                    kwargs, ncalls, outcome, error >>

ShutdownWaits_for_worker == TRUE

\* line 237: executor.shutdown(wait=False, cancel_futures=True)
ShutdownWaits == FALSE

\* lines 205-206 and 235-240.  A shutdown that waits returns when the worker
\* has finished what it runs; one that does not leaves it running.  (The
\* loop submits only while nothing is unresolved, so no submitted work is
\* ever waiting to start and cancel_futures finds nothing to cancel.)
HandleExit ==
    /\ pc = "read"
    /\ events # <<>> /\ Head(events).ev = "Exit"
    /\ events' = Tail(events)
    /\ window' = "closed"
    /\ executor' = IF run_in_new_thread THEN "shutdown" ELSE executor
    /\ IF run_in_new_thread /\ ShutdownWaits /\ unresolved > 0
       THEN /\ unresolved' = 0
            /\ IF future.st = "running"
               THEN \E o \in Outcomes(gui.main_function, kwargs) :
                        future' = DoneFuture(o)
               ELSE future' = future
       ELSE UNCHANGED << future, unresolved >>
    /\ rerouted' = IF redirect_stdout THEN FALSE ELSE rerouted
    /\ pc' = "returned"
    /\ UNCHANGED << config, invoked, read_values, delivered, output, stdout,
                    kwargs, ncalls, outcome, error >>

Busy_never == FALSE

\* lines 209-210
Busy == run_in_new_thread /\ future.st # "none" /\ future.st # "done"

\* lines 208-212
HandleRunBusy ==
    /\ pc = "read"
    /\ events # <<>> /\ Head(events).ev = "-RUN-"
    /\ Busy
    /\ events' = Tail(events)
    /\ output' = PrintedOutput(wait_message)
    /\ stdout' = PrintedStdout(wait_message)
    /\ pc' = "top"
    /\ UNCHANGED << config, invoked, read_values, window, delivered, rerouted,
                    executor, future, unresolved, kwargs, ncalls, outcome,
                    error >>

\* lines 208, 214-230
HandleRun ==
    /\ pc = "read"
    /\ events # <<>> /\ Head(events).ev = "-RUN-"
    /\ ~Busy
    /\ events' = Tail(events)
    /\ \E values \in WindowValues(gui.layout) :
        LET ps == get_params(State)
            exc == ConversionError(ps, values)
            kw == Kwargs(ps, values, gui.window_param)
        IN /\ read_values' = values
           /\ IF exc # "none"
              THEN /\ pc' = "raised"
                   /\ error' = "conversion"
                   /\ UNCHANGED << future, unresolved, output, kwargs, ncalls, outcome >>
              ELSE IF run_in_new_thread
              THEN /\ future' = RunningFuture
                   /\ unresolved' = unresolved + 1
                   /\ kwargs' = kw
                   /\ ncalls' = ncalls + 1
                   /\ pc' = "top"
                   /\ UNCHANGED << output, outcome, error >>
              ELSE \E o \in Outcomes(gui.main_function, kw) :
                   /\ outcome' = o
                   /\ output' = IF o.ok THEN << o.val >> ELSE << ErrorText(o.val) >>
                   /\ kwargs' = kw
                   /\ ncalls' = ncalls + 1
                   /\ pc' = "top"
                   /\ UNCHANGED << future, unresolved, error >>
    /\ UNCHANGED << config, invoked, window, delivered, rerouted, executor,
                    stdout >>

Invocations_none(e) == << >>

\* line 233, values["-RUN-IN-GUICHET-"](): the calls of the payload of the
\* event e that the loop makes, each by the thread that runs the loop
Invocations(e) == << [seq |-> e.seq, payload |-> e.payload, thread |-> "ui"] >>

\* lines 232-233: the payload runs in the loop; what it raises leaves render()
HandleRunInGui ==
    /\ pc = "read"
    /\ events # <<>> /\ Head(events).ev = "-RUN-IN-GUICHET-"
    /\ events' = Tail(events)
    /\ invoked' = invoked \o Invocations(Head(events))
    /\ IF Head(events).payload = "failing"
       THEN pc' = "raised" /\ error' = "payload"
       ELSE pc' = "top" /\ error' = error
    /\ UNCHANGED << config, read_values, window, delivered, rerouted,
                    executor, future, unresolved, output, stdout, kwargs,
                    ncalls, outcome >>

\* the worker thread finishes an invocation: the one future names, or (were
\* there several) another one
WorkerComplete ==
    /\ unresolved > 0
    /\ \E named \in (IF future.st = "running"
                     THEN (IF unresolved > 1 THEN BOOLEAN ELSE {TRUE})
                     ELSE {FALSE}) :
        IF named
        THEN \E o \in Outcomes(gui.main_function, kwargs) : future' = DoneFuture(o)
        ELSE future' = future
    /\ unresolved' = unresolved - 1
    /\ UNCHANGED << config, invoked, read_values, pc, window, events,
                    delivered, rerouted, executor, output, stdout, kwargs,
                    ncalls, outcome, error >>

\* the user presses the button or closes the window, or the callable posts a
\* payload through the window handle, while the loop is running
LoopAlive == pc \in {"top", "consume", "read"}

PostEvent ==
    /\ LoopAlive
    /\ delivered < MaxEvents
    /\ Len(events) < MaxQueue
    /\ \E e \in UIEvents : events' = Append(events, Arrival(e, delivered + 1))
    /\ delivered' = delivered + 1
    /\ UNCHANGED << config, invoked, read_values, pc, window, rerouted,
                    executor, future, unresolved, output, stdout, kwargs,
                    ncalls, outcome, error >>

Loop ==
    \/ RenderStart
    \/ LoopTop
    \/ Consume
    \/ ReadTimeout
    \/ HandleExit
    \/ HandleRunBusy
    \/ HandleRun
    \/ HandleRunInGui

RenderNext ==
    \/ RenderStart
    \/ LoopTop
    \/ Consume
    \/ ReadTimeout
    \/ HandleExit
    \/ HandleRunBusy
    \/ HandleRun
    \/ HandleRunInGui
    \/ WorkerComplete
    \/ PostEvent

RenderSpec == RenderInit /\ [][RenderNext]_vars

\* the UI thread keeps running its loop, and the callable terminates
FairRenderSpec == RenderSpec /\ WF_vars(Loop) /\ WF_vars(WorkerComplete)

(***************************************************************************)
(* Properties of render().                                                 *)
(***************************************************************************)
\* the step in which the loop handles the event window.read() returned
Handles(ev) ==
    pc = "read" /\ events # <<>> /\ Head(events).ev = ev /\ pc' # pc

\* C1: with background execution disabled, when the trigger is handled and
\* the callable raises with message m, the output region becomes exactly
\* "Error: " + m, no exception leaves render() and the loop goes on to its
\* next iteration with the window open.
C1_InlineFailureReported ==
    [][ (~run_in_new_thread /\ Handles("-RUN-")
            /\ ncalls' = ncalls + 1 /\ ~outcome'.ok)
        => (/\ output' = << "Error: " \o outcome'.val >>
            /\ error' = "none"
            /\ pc' = "top"
            /\ window' = "open") ]_vars

C1_Witness ==
    /\ ~run_in_new_thread
    /\ ncalls > 0
    /\ outcome = Raised("bad")
    /\ output = << "Error: bad" >>
    /\ pc = "read"
    /\ window = "open"

\* C2: with background execution enabled, the iteration that consumes a
\* resolved PendingInvocation writes its value, or "Error: " and its
\* failure's message, to the output region and clears it: no
\* PendingInvocation exists after the consuming iteration.
C2_ResolvedConsumedAndCleared ==
    [][ pc = "consume"
        => (/\ output' = << IF future.ok THEN future.val
                                         ELSE "Error: " \o future.val >>
            /\ future' = NoFuture) ]_vars

\* C3: once a close event is the next event of a running loop, render()
\* eventually returns (stated for the runs in which no exception leaves
\* render(): those end it otherwise).
C3_CloseLeadsToReturn ==
    (LoopAlive /\ events # <<>> /\ Head(events).ev = "Exit")
        ~> (pc = "returned" \/ error # "none")

\* C4: with background execution enabled at most one invocation is
\* submitted and unresolved, and a trigger handled while the
\* PendingInvocation is unresolved submits nothing.
C4_AtMostOneInFlight ==
    /\ [](unresolved <= 1)
    /\ [][ (Handles("-RUN-") /\ run_in_new_thread /\ future.st = "running")
           => (ncalls' = ncalls /\ unresolved' = unresolved /\ future' = future)
       ]_vars

C4_Witness ==
    /\ run_in_new_thread
    /\ future.st = "running"
    /\ unresolved = 1
    /\ ncalls = 1
    /\ Len(output) + Len(stdout) = 2

\* C5: with background execution enabled, whatever redirect_stdout is, a
\* trigger handled while the PendingInvocation is unresolved adds the
\* configured wait_message to the output region and the loop goes back to
\* its top.
C5_WaitMessageInOutputRegion ==
    [][ (Handles("-RUN-") /\ run_in_new_thread /\ future.st = "running")
        => (/\ Len(output') = Len(output) + 1
            /\ output'[Len(output')] \in {wait_message, wait_message \o "\n"}
            /\ pc' = "top") ]_vars

\* C6: a failure of the annotation's conversion, of whatever kind, never
\* leaves render().
C6_ConversionFailureNeverEscapes == error # "conversion"

(***************************************************************************)
(* Properties of the configuration and its layout.                         *)
(***************************************************************************)
\* the names of the callable's formal parameters, in declaration order
FormalNames == [i \in 1..Len(Signature(gui.main_function)) |->
                    Signature(gui.main_function)[i].name]

Ignored(n) == InSeq(n, lists[gui.ignore_params])

\* the labels of the layout's parameter rows, in row order
RowLabels(layout) == [i \in 1..Len(ParamRows(layout)) |-> ParamRows(layout)[i].label]

\* every parameter name of every callable
ParamNames ==
    UNION {{Signature(fn)[i].name : i \in 1..Len(Signature(fn))} : fn \in Callables}

Position(n, names) == CHOOSE i \in 1..Len(names) : names[i] = n

\* C7: for a callable with N parameters outside ignore_params, the layout
\* is N parameter rows (a label and an input), then the trigger row, then
\* the output row: N + 2 rows.
C7_LayoutHasNPlusTwoRows ==
    LET n == Cardinality({i \in 1..Len(FormalNames) : ~Ignored(FormalNames[i])})
    IN /\ Len(gui.layout) = n + 2
       /\ \A i \in 1..n : /\ gui.layout[i].kind = "param"
                          /\ gui.layout[i].widget \in {"InputText", "Checkbox", "Password"}
       /\ gui.layout[n + 1].kind = "button"
       /\ gui.layout[n + 2].kind = "output"

C7_Witness ==
    /\ last_set = "window_param"
    /\ gui.main_function = "counter"
    /\ gui.window_param = "win"
    /\ lists[gui.ignore_params] = << None, "win" >>
    /\ Len(gui.layout) = 3

\* C8: a window_param that is set to a name is a member of ignore_params,
\* and so is not shown as an input row.
C8_WindowParamIsIgnored ==
    gui.window_param # None
        => (Ignored(gui.window_param)
            /\ ~InSeq(gui.window_param, RowLabels(gui.layout)))

\* the parameter rows show the formal parameters outside ignore_params, each
\* once, in declaration order
RowsAreVisible ==
    LET rows == RowLabels(gui.layout)
    IN /\ \A n \in {FormalNames[i] : i \in 1..Len(FormalNames)} :
            InSeq(n, rows) <=> ~Ignored(n)
       /\ \A i \in 1..Len(rows) : InSeq(rows[i], FormalNames)
       /\ \A i, j \in 1..Len(rows) :
            i < j => Position(rows[i], FormalNames) < Position(rows[j], FormalNames)

\* C9: the parameter rows are exactly the formal parameters whose name is
\* not in ignore_params, in declaration order; and a step that adds one
\* name to ignore_params (the callable staying the same) removes that
\* parameter's row and leaves the other rows as they were, in their order.
C9_RowsAreVisibleParams ==
    /\ []RowsAreVisible
    /\ [][ \A n \in ParamNames :
            (/\ gui'.main_function = gui.main_function
             /\ ~Ignored(n)
             /\ lists'[gui'.ignore_params] = Append(lists[gui.ignore_params], n))
            => ParamRows(gui'.layout)
                 = SelectSeq(ParamRows(gui.layout), LAMBDA r : r.label # n)
       ]_vars

C9_Witness ==
    /\ last_set = "window_param"
    /\ gui.main_function = "counter"
    /\ lists[gui.ignore_params] = << "ignored", None, "win" >>
    /\ RowLabels(gui.layout) = << "flag" >>

\* C10: the layout is the one built from scratch from the current values
\* of the properties; the trigger row shows the button_label assigned
\* last; assigning a value a second time changes nothing.
C10_LayoutIsRebuilt ==
    /\ gui.layout = make_layout(State)
    /\ gui.layout[Len(gui.layout) - 1] = ButtonRow(gui.button_label)
    /\ gui.layout[Len(gui.layout)] = OutputRow(gui.output_size)
    /\ \A v \in Labels :
         set_button_label(set_button_label(State, v), v) = set_button_label(State, v)
    /\ \A v \in Sizes :
         set_output_size(set_output_size(State, v), v) = set_output_size(State, v)
    /\ \A v \in BOOLEAN :
         set_show_default(set_show_default(State, v), v) = set_show_default(State, v)
    /\ \A v \in Callables :
         set_main_function(set_main_function(State, v), v) = set_main_function(State, v)
    /\ \A v \in CallerLists \cup {None} :
         set_ignore_params(set_ignore_params(State, v), v) = set_ignore_params(State, v)

C10_Witness ==
    /\ last_set = "button_label"
    /\ gui.button_label = "Go"
    /\ gui.layout[Len(gui.layout) - 1].text = "Go"
    /\ gui.window_param = "win"

\* the formal parameter of the current callable that is named n
Formal(n) ==
    Signature(gui.main_function)[Position(n, FormalNames)]

\* C11: the input of every visible parameter holds the parameter's default
\* exactly when show_default is on and the parameter declares a default (a
\* default of None is a default); otherwise the input is empty.
C11_DefaultShownIffDeclared ==
    \A i \in 1..Len(ParamRows(gui.layout)) :
        LET row == ParamRows(gui.layout)[i]
            p == Formal(row.label)
            declared == p.default # Empty
        IN /\ (gui.show_default /\ declared) => row.content = p.default
           /\ ~(gui.show_default /\ declared) => row.content = PyStr("")
           /\ (row.content # PyStr("")) <=> (gui.show_default /\ declared)

C11_Witness ==
    /\ last_set = "show_default"
    /\ gui.show_default
    /\ gui.main_function = "f"
    /\ Len(gui.layout) = 4
    /\ gui.layout[1].content = PyInt("3")
    /\ gui.layout[2].content = PyNone

\* a step that is the assignment of a property
Assigns(prop) == last_set' = prop /\ pc = "init" /\ pc' = "init"

\* C12: no instance has a main_function that is not callable: constructing
\* with one raises and leaves no instance, and assigning one raises at once
\* and leaves the previous main_function and the layout as they were.
C12_NonCallableRefused ==
    /\ [](callable(gui.main_function))
    /\ [][Assigns("main_function")
            => /\ (raised'.exc = "TypeError") <=> (raised'.value \in NonCallables)
               /\ raised'.exc = "TypeError"
                    => /\ gui'.main_function = gui.main_function
                       /\ gui'.layout = gui.layout
                       /\ gui' = gui /\ lists' = lists
               /\ raised'.exc = "none"
                    => gui'.layout = make_layout([gui |-> gui', lists |-> lists'])]_vars

C12_Witness ==
    /\ last_set = "main_function"
    /\ raised = TypeError("42")
    /\ gui.main_function = "counter"
    /\ Len(gui.layout) = 4

\* how many times x occurs in the sequence s
Count(x, s) == Cardinality({i \in 1..Len(s) : s[i] = x})

\* C13 as stated: after window_param is assigned a name, the name appears
\* exactly once in ignore_params.
C13_NameAppearsExactlyOnce ==
    (last_set = "window_param" /\ gui.window_param # None)
        => Count(gui.window_param, ignore_params_of(State)) = 1

\* C13: assigning window_param never adds a name that ignore_params already
\* holds: the name is appended when it is absent, the occurrences already in
\* the list are kept as they are, and assigning the same name again changes
\* nothing.
C13_AssignmentAddsNameOnlyWhenAbsent ==
    /\ [](\A v \in WindowParams \ {None} :
            LET once == set_window_param(State, v)
                twice == set_window_param(once, v)
                thrice == set_window_param(twice, v)
            IN /\ twice = once /\ thrice = once
               /\ Count(v, ignore_params_of(once))
                    = IF Count(v, ignore_params_of(State)) = 0 THEN 1
                      ELSE Count(v, ignore_params_of(State)))
    /\ [][(Assigns("window_param") /\ gui'.window_param # None)
            => LET n == gui'.window_param
                   before == Count(n, ignore_params_of(State))
                   after == Count(n, lists'[gui'.ignore_params])
               IN /\ gui'.ignore_params = gui.ignore_params
                  /\ after = IF before = 0 THEN 1 ELSE before
                  /\ before > 0 => lists' = lists]_vars

\* the name was assigned again to an instance that already had it
C13_Witness ==
    /\ last_set = "window_param"
    /\ gui.window_param = "win"
    /\ gui.ignore_params = "L1"
    /\ lists["L1"] = <<"word_2", "win">>
    /\ Count("win", ignore_params_of(State)) = 1

\* C14: an instance constructed without ignore_params and without
\* window_param has an empty ignore_params, and ignore_params never contains
\* anything but the names the caller supplied and the window_param that is
\* present (None is neither).
C14_IgnoreParamsHoldsOnlyNames ==
    /\ (last_set = "none" /\ gui.ignore_params = OwnList /\ gui.window_param = None)
          => ignore_params_of(State) = <<>>
    /\ ~InSeq(None, ignore_params_of(State))

(***************************************************************************)
(* More properties of render().                                            *)
(***************************************************************************)
\* C15: when the close event is handled while the background invocation is
\* still running, render() releases the window, shuts the worker down,
\* restores the streams and returns in that same step, the invocation still
\* running.
C15_CloseDoesNotWaitForWorker ==
    [][ (Handles("Exit") /\ run_in_new_thread /\ future.st = "running")
        => (/\ pc' = "returned"
            /\ window' = "closed"
            /\ executor' = "shutdown"
            /\ ~rerouted'
            /\ error' = "none"
            /\ future' = future
            /\ unresolved' = unresolved /\ unresolved' > 0) ]_vars

C15_Witness ==
    /\ pc = "returned"
    /\ run_in_new_thread
    /\ future.st = "running"
    /\ unresolved = 1
    /\ window = "closed"
    /\ executor = "shutdown"
    /\ ~rerouted

\* C16: the step that handles a run-in-GUI event calls the event's payload
\* once, in the thread of the loop, before the loop goes on to its next
\* read; no other step calls a payload, so the payloads are called in the
\* order their events were sent to the window.
C16_PayloadInvokedOnceByLoop ==
    /\ [][ IF Handles("-RUN-IN-GUICHET-")
           THEN /\ invoked' = Append(invoked, [seq |-> Head(events).seq,
                                               payload |-> Head(events).payload,
                                               thread |-> "ui"])
                /\ pc' # "read"
           ELSE invoked' = invoked ]_vars
    /\ [](\A i, j \in 1..Len(invoked) :
             /\ invoked[i].thread = "ui"
             /\ i < j => invoked[i].seq < invoked[j].seq)

\* two payloads were called, in the order they were sent
C16_Witness ==
    /\ Len(invoked) = 2
    /\ invoked[1].payload = "progress" /\ invoked[2].payload = "failing"
    /\ invoked[1].seq < invoked[2].seq
    /\ error = "payload"

\* C17: a PendingInvocation is created only when none exists and ceases to
\* exist only by being consumed; in particular a resolved one is never
\* replaced by a newer one before its result was written.
C17_PendingInvocationLifecycle ==
    [][ /\ (future'.st = "running" /\ future' # future) => future = NoFuture
        /\ (future # NoFuture /\ future' = NoFuture) => pc = "consume"
        /\ (future.st = "done" /\ future' # future) => pc = "consume" ]_vars

\* C18: an iteration that starts with a resolved PendingInvocation consumes
\* it (writes its result) and reads no UI event; the UI events are otherwise
\* taken one at a time by the read of an iteration, in the order in which
\* they arrived.
C18_ResolvedFirstThenArrivalOrder ==
    /\ [][ (pc = "top" /\ pc' # pc /\ run_in_new_thread /\ future.st = "done")
           => pc' = "consume" ]_vars
    /\ [][ (pc = "consume" /\ pc' # pc)
           => /\ future.st = "done"
              /\ output' = << IF future.ok THEN future.val
                                           ELSE "Error: " \o future.val >>
              /\ events' = events
              /\ pc' = "top" ]_vars
    /\ [][ (events' # events /\ Len(events') <= Len(events))
           => /\ pc = "read" /\ pc' # pc
              /\ events' = Tail(events)
              /\ Head(events).seq = delivered - Len(events) + 1 ]_vars
    /\ [](\A i \in 1..Len(events) :
             events[i].seq = delivered - Len(events) + i)

\* a resolved invocation is about to be consumed while an event is waiting
C18_Witness ==
    /\ pc = "consume"
    /\ future.st = "done"
    /\ events # <<>>
    /\ delivered >= 2

\* p.annotation(v) as the claim describes it: the converted value when the
\* parameter is annotated and the conversion succeeds, the raw value otherwise
Converted(p, v) ==
    IF p.annotation = "_empty" THEN v
    ELSE IF Annotate(p.annotation, v).exc = "none"
         THEN Annotate(p.annotation, v).val
         ELSE v

\* C19: every trigger that starts an invocation calls the callable with
\* exactly one keyword argument per visible parameter, bound to the
\* (converted) value read from the input row labelled with that parameter's
\* name, plus the window handle under window_param when one is configured.
C19_ArgumentsBoundByName ==
    [][ (Handles("-RUN-") /\ ncalls' = ncalls + 1)
        => LET rows == ParamRows(gui.layout)
               visible == {FormalNames[i] : i \in {j \in 1..Len(FormalNames) :
                                                     ~Ignored(FormalNames[j])}}
               wp == IF gui.window_param # None THEN {gui.window_param} ELSE {}
           IN /\ DOMAIN kwargs' = visible \cup wp
              /\ \A n \in visible :
                    /\ Cardinality({i \in 1..Len(rows) : rows[i].label = n}) = 1
                    /\ \A i \in 1..Len(rows) :
                          rows[i].label = n
                            => kwargs'[n] = Converted(Formal(n), read_values'[i])
              /\ \A n \in wp : kwargs'[n] = WindowHandle ]_vars

\* C20: with redirect_stdout enabled the redirection is in effect while the
\* loop runs and is no longer in effect once render() has stopped, whether
\* it returned on the close event or an exception left it; and once render()
\* has stopped the worker has been shut down.
C20_TornDownHoweverRenderStops ==
    /\ (redirect_stdout /\ LoopAlive) => rerouted
    /\ pc \in {"returned", "raised"} => (~rerouted /\ executor # "running")

(***************************************************************************)
(* Properties of the list a caller passes as ignore_params.                *)
(***************************************************************************)
\* a step of the second instance (its construction, an assignment of its
\* window_param) changes neither what the first one ignores nor the first
\* one's layout, and the other way round
InstancesAreIndependent ==
    /\ [][ other' # other
           => /\ lists'[gui.ignore_params] = lists[gui.ignore_params]
              /\ gui' = gui ]_vars
    /\ [][ (gui' # gui /\ other # Blank)
           => /\ lists'[other.ignore_params] = lists[other.ignore_params]
              /\ other' = other ]_vars

\* C21: the list object the caller supplied is left as the caller made it
\* by the construction and by every later assignment of window_param, and
\* of two instances given the same list neither changes the other's
\* ignore_params or layout.
C21_CallerListUnchanged ==
    /\ (last_set = "none" /\ other = Blank) => lists["L1"] \in InitialLists
    /\ [][lists'["L1"] = lists["L1"]]_vars
    /\ InstancesAreIndependent

====
